---- MODULE Spec2Model ----
(***************************************************************************)
(* Model of the interactive session of scripts/trading_client.py: the      *)
(* TradingClient object (token, headers), the read/dispatch/render loop of *)
(* main(), the two POST operations and print_response.                     *)
(*                                                                         *)
(* Text typed by the operator is a sequence of one-character strings, so   *)
(* that str.strip, str.lower, str.startswith, str.split and int() are      *)
(* computed as Python computes them.  Text that only travels (messages of  *)
(* the remote payload, fixed messages of the client) is a TLA+ string.     *)
(*                                                                         *)
(* requests.exceptions.JSONDecodeError is a RequestException (requests >=  *)
(* 2.27), so a body that is not JSON is caught by the except clauses of    *)
(* send_prompt / update_leverage like any other connection-level failure.  *)
(***************************************************************************)
EXTENDS Integers, Sequences, FiniteSets, TLC

VARIABLES
    pc,          \* position of main(): "start", "read", "post", "render", "done"
    token,       \* client.token: Optional character sequence
    headers,     \* client.headers: header name -> value
    exitStatus,  \* Optional process exit status
    postCount,   \* number of requests.post calls made so far
    request,     \* Optional POST in flight (path, headers, json body, timeout)
    response,    \* Optional decoded body held between the POST and print_response
    branch,      \* branch of main() that issued the POST: "leverage", "prompt", "none"
    line,        \* Optional raw line returned by the last input() call
    event,       \* what main() last reacted to: "line", "eof", "interrupt", ...
    wire,        \* Optional outcome of the last HTTP call of the current command
    out          \* display lines printed since the last input() call

vars == <<pc, token, headers, exitStatus, postCount, request, response, branch,
          line, event, wire, out>>

----------------------------------------------------------------------------
(* Bounds of the model *)

MaxPosts == 2        \* POSTs issued in one explored session
MaxActions == 2      \* length of the "actions" array of a remote payload

----------------------------------------------------------------------------
(* Optional values (Python None / a missing dict key) *)

NoneVal == [some |-> FALSE]
Some(v) == [some |-> TRUE, val |-> v]

----------------------------------------------------------------------------
(* Python string operations on character sequences *)

Whitespace == {" ", "\t"}

UpperChars == <<"A","B","C","D","E","F","G","H","I","J","K","L","M",
                "N","O","P","Q","R","S","T","U","V","W","X","Y","Z">>
LowerChars == <<"a","b","c","d","e","f","g","h","i","j","k","l","m",
                "n","o","p","q","r","s","t","u","v","w","x","y","z">>

LowerChar(c) ==
    IF \E i \in 1..Len(UpperChars) : UpperChars[i] = c
    THEN LowerChars[CHOOSE i \in 1..Len(UpperChars) : UpperChars[i] = c]
    ELSE c

\* str.lower()
lower(s) == [i \in 1..Len(s) |-> LowerChar(s[i])]

RECURSIVE lstrip(_)
lstrip(s) == IF s # <<>> /\ Head(s) \in Whitespace THEN lstrip(Tail(s)) ELSE s

RECURSIVE rstrip(_)
rstrip(s) ==
    IF s # <<>> /\ s[Len(s)] \in Whitespace
    THEN rstrip(SubSeq(s, 1, Len(s) - 1))
    ELSE s

\* str.strip()
strip(s) == rstrip(lstrip(s))

\* str.startswith(prefix)
startswith(s, prefix) ==
    /\ Len(s) >= Len(prefix)
    /\ SubSeq(s, 1, Len(prefix)) = prefix

\* length of the first whitespace-delimited word of t, t not starting with whitespace
WordLen(t) ==
    CHOOSE n \in 1..Len(t) :
        /\ \A i \in 1..n : t[i] \notin Whitespace
        /\ (n = Len(t) \/ t[n + 1] \in Whitespace)

\* str.split() with no separator: the words between runs of whitespace
RECURSIVE split(_)
split(s) ==
    LET t == lstrip(s) IN
    IF t = <<>> THEN <<>>
    ELSE <<SubSeq(t, 1, WordLen(t))>> \o split(SubSeq(t, WordLen(t) + 1, Len(t)))

Digits == <<"0","1","2","3","4","5","6","7","8","9">>
IsDigit(c) == \E i \in 1..Len(Digits) : Digits[i] = c
DigitVal(c) == (CHOOSE i \in 1..Len(Digits) : Digits[i] = c) - 1

Unsigned(w) == IF w # <<>> /\ Head(w) \in {"+", "-"} THEN Tail(w) ELSE w

\* int(w) does not raise ValueError: an optional sign and at least one digit
IsInt(w) ==
    /\ Unsigned(w) # <<>>
    /\ \A i \in 1..Len(Unsigned(w)) : IsDigit(Unsigned(w)[i])

RECURSIVE NatVal(_)
NatVal(d) ==
    IF d = <<>> THEN 0
    ELSE 10 * NatVal(SubSeq(d, 1, Len(d) - 1)) + DigitVal(d[Len(d)])

\* int(w) for a word accepted by IsInt
IntVal(w) == IF Head(w) = "-" THEN 0 - NatVal(Unsigned(w)) ELSE NatVal(Unsigned(w))

----------------------------------------------------------------------------
(* Lines the operator can type *)

QuitWords == { <<"q","u","i","t">>, <<"e","x","i","t">>, <<"q">> }
HelpWord == <<"h","e","l","p">>
TokenPrefix == <<"t","o","k","e","n"," ">>
LeveragePrefix == <<"l","e","v","e","r","a","g","e"," ">>

Leverage == <<"l","e","v","e","r","a","g","e">>

Bodies ==
    { <<>>,
      <<"q">>, <<"Q">>, <<"q","u","i","t">>, <<"Q","u","I","t">>, <<"E","X","I","T">>,
      <<"h","e","l","p">>, <<"H","e","l","p">>,
      <<"t","o","k","e","n">>,
      <<"t","o","k","e","n"," ","a","b">>,
      <<"T","O","K","E","N"," "," ","a","b">>,
      <<"t","o","k","e","n"," ","x"," ","y">>,
      <<"t","o","k","e","n","a","b">>,
      <<"t","o","k","e","n","\t","a","b">>,
      Leverage,
      Leverage \o <<" ","0"," ","2","0">>,
      <<"L","E","V","E","R","A","G","E"," ","1"," ","-","5">>,
      Leverage \o <<" "," ","+","3","\t","7">>,
      Leverage \o <<"\t","0"," ","2","0">>,
      Leverage \o <<" ","0">>,
      Leverage \o <<" ","0"," ","2","0"," ","5">>,
      Leverage \o <<" ","x"," ","2","0">>,
      Leverage \o <<" ","0"," ","2",".","5">>,
      Leverage \o <<" ","-"," ","1">>,
      Leverage \o <<"x"," ","1"," ","2">>,
      <<"B","u","y"," ","E","T","H">>,
      <<"q","u","i","t"," ","n","o","w">> }

LeadPad == { <<>>, <<" ">> }
TrailPad == { <<>>, <<" ">> }

\* every raw line input() can return in the model
Lines == { l \o b \o t : l \in LeadPad, b \in Bodies, t \in TrailPad }

----------------------------------------------------------------------------
(* Remote payloads: the values response.json() can return *)

OptOf(S) == {NoneVal} \cup { Some(v) : v \in S }

Unprintable == "\\ud800"     \* a lone surrogate: print() raises UnicodeEncodeError

ActionResults ==
    [tool : OptOf({"setLeverage"}), success : OptOf(BOOLEAN), error : OptOf({"rejected"})]

ActionSeqs == UNION { [1..n -> ActionResults] : n \in 0..MaxActions }

\* JSON objects following the response shape of the API, any field missing
Payloads ==
    [kind : {"dict"}, success : OptOf(BOOLEAN), message : OptOf({"done"}),
     error : OptOf({"bad token"}), details : OptOf({"expired"}),
     actions : OptOf(ActionSeqs)]

Dict(success, message, error, details, actions) ==
    [kind |-> "dict", success |-> success, message |-> message, error |-> error,
     details |-> details, actions |-> actions]

\* the dict literal {"error": text}
ErrorDict(text) == Dict(NoneVal, NoneVal, Some(text), NoneVal, NoneVal)

OkAction == [tool |-> Some("setLeverage"), success |-> Some(TRUE), error |-> NoneVal]
FailedAction == [tool |-> NoneVal, success |-> Some(FALSE), error |-> Some("rejected")]

\* bodies the server answers with in a session: well-formed payloads, a payload
\* whose message cannot be printed, and JSON values that are not objects
WireBodies ==
    { Dict(Some(TRUE), Some("done"), NoneVal, NoneVal, Some(<<OkAction>>)),
      Dict(Some(FALSE), Some("done"), NoneVal, NoneVal, Some(<<OkAction, FailedAction>>)),
      Dict(NoneVal, NoneVal, Some("bad token"), Some("expired"), NoneVal),
      Dict(Some(TRUE), NoneVal, Some("bad token"), NoneVal, Some(<<OkAction>>)),
      Dict(NoneVal, NoneVal, NoneVal, NoneVal, NoneVal),
      Dict(Some(TRUE), Some(Unprintable), NoneVal, NoneVal, NoneVal),
      [kind |-> "array"],
      [kind |-> "null"] }

StatusCodes == {200, 401, 500}

\* messages of requests.exceptions.RequestException: refused, timed out, body not JSON
TransportErrors == {"connection refused", "read timed out", "expecting value"}

TokenNotSet == "Token not set. Use 'token <your_token>' first."

----------------------------------------------------------------------------
(* Display lines *)

ErrorLine(text) == [kind |-> "error", text |-> text]
DetailsLine(text) == [kind |-> "details", text |-> text]
StatusLine(ok, text) == [kind |-> "status", ok |-> ok, text |-> text]
ActionsHeader == [kind |-> "actions_header"]
ActionLine(i, ok, tool) == [kind |-> "action", n |-> i, ok |-> ok, text |-> tool]
ActionErrorLine(text) == [kind |-> "action_error", text |-> text]
TokenSetLine == [kind |-> "token_set"]
MissingTokenLine == [kind |-> "missing_token"]
SettingLine(a, b) == [kind |-> "setting", assetId |-> a, leverage |-> b]
InvalidFormatLine == [kind |-> "invalid_format"]
UsageLine == [kind |-> "usage"]
ProcessingLine(input) == [kind |-> "processing", input |-> input]
HelpLines == [kind |-> "help"]
GoodbyeLine == [kind |-> "goodbye"]
UnexpectedErrorLine(exc) == [kind |-> "unexpected_error", exc |-> exc]
HealthOkLine == [kind |-> "health_ok"]
HealthStatusLine(status) == [kind |-> "health_status", status |-> status]
HealthFailedLine == [kind |-> "health_failed"]
ServerHintLine == [kind |-> "server_hint"]
CommandsLines == [kind |-> "commands"]

Printable(l) == ~("text" \in DOMAIN l /\ l.text = Unprintable)

----------------------------------------------------------------------------
(* TradingClient.print_response *)

\* the loop over the actions printing the error of every action that carries one
RECURSIVE ActionLinesAnyError(_, _)
ActionLinesAnyError(actions, i) ==
    IF i > Len(actions) THEN <<>>
    ELSE LET action == actions[i]
             ok == action.success.some /\ action.success.val
             tool == IF action.tool.some THEN action.tool.val ELSE "unknown"
         IN  <<ActionLine(i, ok, tool)>>
             \o (IF action.error.some
                 THEN <<ActionErrorLine(action.error.val)>> ELSE <<>>)
             \o ActionLinesAnyError(actions, i + 1)

RECURSIVE ActionLines(_, _)
ActionLines(actions, i) ==
    IF i > Len(actions) THEN <<>>
    ELSE LET action == actions[i]
             ok == action.success.some /\ action.success.val
             tool == IF action.tool.some THEN action.tool.val ELSE "unknown"
         IN  <<ActionLine(i, ok, tool)>>
             \o (IF ~ok /\ action.error.some
                 THEN <<ActionErrorLine(action.error.val)>> ELSE <<>>)
             \o ActionLines(actions, i + 1)

\* print_response taking the error branch only when there are no actions
PrintLinesErrorWithoutActions(r) ==
    IF r.error.some /\ ~(r.actions.some /\ r.actions.val # <<>>)
    THEN <<ErrorLine(r.error.val)>>
         \o (IF r.details.some THEN <<DetailsLine(r.details.val)>> ELSE <<>>)
    ELSE <<StatusLine(r.success.some /\ r.success.val,
                      IF r.message.some THEN r.message.val ELSE "No message")>>
         \o (IF r.actions.some /\ r.actions.val # <<>>
             THEN <<ActionsHeader>> \o ActionLines(r.actions.val, 1) ELSE <<>>)

\* print_response taking the error branch only when success is not true
PrintLinesSuccessFirst(r) ==
    IF r.error.some /\ ~(r.success.some /\ r.success.val)
    THEN <<ErrorLine(r.error.val)>>
         \o (IF r.details.some THEN <<DetailsLine(r.details.val)>> ELSE <<>>)
    ELSE <<StatusLine(r.success.some /\ r.success.val,
                      IF r.message.some THEN r.message.val ELSE "No message")>>
         \o (IF r.actions.some /\ r.actions.val # <<>>
             THEN <<ActionsHeader>> \o ActionLines(r.actions.val, 1) ELSE <<>>)

\* print_response reading message without its default
PrintLinesNoDefault(r) ==
    IF r.error.some
    THEN <<ErrorLine(r.error.val)>>
         \o (IF r.details.some THEN <<DetailsLine(r.details.val)>> ELSE <<>>)
    ELSE <<StatusLine(r.success.some /\ r.success.val,
                      IF r.message.some THEN r.message.val ELSE "None")>>
         \o (IF r.actions.some /\ r.actions.val # <<>>
             THEN <<ActionsHeader>> \o ActionLines(r.actions.val, 1) ELSE <<>>)

\* the lines print_response passes to print(), in order, for a dict
PrintLines(r) ==
    IF r.error.some
    THEN <<ErrorLine(r.error.val)>>
         \o (IF r.details.some THEN <<DetailsLine(r.details.val)>> ELSE <<>>)
    ELSE <<StatusLine(r.success.some /\ r.success.val,
                      IF r.message.some THEN r.message.val ELSE "No message")>>
         \o (IF r.actions.some /\ r.actions.val # <<>>
             THEN <<ActionsHeader>> \o ActionLines(r.actions.val, 1) ELSE <<>>)

Min(S) == CHOOSE x \in S : \A y \in S : x <= y

\* what print_response(r) prints and the exception it raises, "none" if it returns
print_response(r) ==
    IF r.kind = "null" THEN [lines |-> <<>>, exc |-> "TypeError"]
    ELSE IF r.kind = "array" THEN [lines |-> <<>>, exc |-> "AttributeError"]
    ELSE LET want == PrintLines(r)
             bad == { i \in 1..Len(want) : ~Printable(want[i]) }
         IN  IF bad = {} THEN [lines |-> want, exc |-> "none"]
             ELSE [lines |-> SubSeq(want, 1, Min(bad) - 1), exc |-> "UnicodeEncodeError"]

IsValueError(exc) == exc = "UnicodeEncodeError"

\* the except clauses of main(): what is printed for an exception raised in a branch
Handler(br, exc) ==
    IF exc = "none" THEN <<>>
    ELSE IF br = "leverage" /\ IsValueError(exc) THEN <<InvalidFormatLine>>
    ELSE <<UnexpectedErrorLine(exc)>>

\* client.print_response(response) inside the try block of main()
Rendered(br, r) == print_response(r).lines \o Handler(br, print_response(r).exc)

----------------------------------------------------------------------------
(* TradingClient: session state and the two POST operations *)

Bearer(tok) == <<"B","e","a","r","e","r"," ">> \o tok

\* headers after self.headers.setdefault("Authorization", f"Bearer {token}")
WithAuthorizationKeepFirst(hs, tok) ==
    [h \in DOMAIN hs \cup {"Authorization"} |->
        IF h \in DOMAIN hs THEN hs[h] ELSE Bearer(tok)]

\* headers after self.headers["Authorization"] = f"Bearer {token}"
WithAuthorization(hs, tok) ==
    [h \in DOMAIN hs \cup {"Authorization"} |->
        IF h = "Authorization" THEN Bearer(tok) ELSE hs[h]]

\* Python truth value of self.token negated: None and "" are both falsy
Falsy(tok) == ~tok.some \/ tok.val = <<>>

\* health_check() that takes any answer of the server for a running server
health_check_any_status(probe) == probe.some

\* health_check(): probe is the status of GET /health, NoneVal for a RequestException
health_check(probe) == probe.some /\ probe.val = 200

\* update_leverage without the check of self.token
update_leverage_unchecked(tok, asset_id, leverage) ==
    [post |-> TRUE, path |-> "/api/update_leverage",
     json |-> [assetId |-> asset_id, leverage |-> leverage], timeout |-> 30]

\* update_leverage with the two fields of the JSON body exchanged
update_leverage_swapped(tok, asset_id, leverage) ==
    IF Falsy(tok)
    THEN [post |-> FALSE, ret |-> ErrorDict(TokenNotSet)]
    ELSE [post |-> TRUE, path |-> "/api/update_leverage",
          json |-> [assetId |-> leverage, leverage |-> asset_id], timeout |-> 30]

\* update_leverage up to the blocking call: an early return or the POST to issue
update_leverage(tok, asset_id, leverage) ==
    IF Falsy(tok)
    THEN [post |-> FALSE, ret |-> ErrorDict(TokenNotSet)]
    ELSE [post |-> TRUE, path |-> "/api/update_leverage",
          json |-> [assetId |-> asset_id, leverage |-> leverage], timeout |-> 30]

\* send_prompt posting to the path of update_leverage
send_prompt_wrong_path(tok, prompt) ==
    IF Falsy(tok)
    THEN [post |-> FALSE, ret |-> ErrorDict(TokenNotSet)]
    ELSE [post |-> TRUE, path |-> "/api/update_leverage",
          json |-> [prompt |-> prompt], timeout |-> 120]

\* send_prompt up to the blocking call
send_prompt(tok, prompt) ==
    IF Falsy(tok)
    THEN [post |-> FALSE, ret |-> ErrorDict(TokenNotSet)]
    ELSE [post |-> TRUE, path |-> "/api/prompt",
          json |-> [prompt |-> prompt], timeout |-> 120]

\* the client methods without their except clause: the exception reaches main()
post_result_uncaught(w) ==
    IF w.kind = "reply"
    THEN [ret |-> Some(w.body), exc |-> "none"]
    ELSE [ret |-> NoneVal, exc |-> "RequestException"]

\* the client methods calling raise_for_status() before response.json()
post_result_raise_for_status(w) ==
    IF w.kind = "reply" /\ w.status < 400
    THEN [ret |-> Some(w.body), exc |-> "none"]
    ELSE IF w.kind = "reply"
    THEN [ret |-> Some(ErrorDict("Request failed: http error")), exc |-> "none"]
    ELSE [ret |-> Some(ErrorDict("Request failed: " \o w.error)), exc |-> "none"]

\* the rest of update_leverage / send_prompt: response.json() or the except clause
post_result(w) ==
    IF w.kind = "reply"
    THEN [ret |-> Some(w.body), exc |-> "none"]
    ELSE [ret |-> Some(ErrorDict("Request failed: " \o w.error)), exc |-> "none"]

----------------------------------------------------------------------------
(* main(): classification of the stripped line by the if/elif chain *)

\* the chain without the test for an empty line
KindNoEmptyCheck(user_input) ==
    IF lower(user_input) \in QuitWords THEN "quit"
    ELSE IF lower(user_input) = HelpWord THEN "help"
    ELSE IF startswith(lower(user_input), TokenPrefix) THEN "token"
    ELSE IF startswith(lower(user_input), LeveragePrefix) THEN "leverage"
    ELSE "prompt"

\* the chain with the quit test on user_input instead of user_input.lower()
KindQuitCaseSensitive(user_input) ==
    IF user_input = <<>> THEN "empty"
    ELSE IF user_input \in QuitWords THEN "quit"
    ELSE IF lower(user_input) = HelpWord THEN "help"
    ELSE IF startswith(lower(user_input), TokenPrefix) THEN "token"
    ELSE IF startswith(lower(user_input), LeveragePrefix) THEN "leverage"
    ELSE "prompt"

\* the chain with the quit test written as a prefix test
KindQuitPrefix(user_input) ==
    IF user_input = <<>> THEN "empty"
    ELSE IF \E w \in QuitWords : startswith(lower(user_input), w) THEN "quit"
    ELSE IF lower(user_input) = HelpWord THEN "help"
    ELSE IF startswith(lower(user_input), TokenPrefix) THEN "token"
    ELSE IF startswith(lower(user_input), LeveragePrefix) THEN "leverage"
    ELSE "prompt"

Kind(user_input) ==
    IF user_input = <<>> THEN "empty"
    ELSE IF lower(user_input) \in QuitWords THEN "quit"
    ELSE IF lower(user_input) = HelpWord THEN "help"
    ELSE IF startswith(lower(user_input), TokenPrefix) THEN "token"
    ELSE IF startswith(lower(user_input), LeveragePrefix) THEN "leverage"
    ELSE "prompt"

\* the stripped text, its class and its words for every line of the model
Parsed ==
    [raw \in Lines |->
        [user_input |-> strip(raw), kind |-> Kind(strip(raw)), parts |-> split(strip(raw))]]

----------------------------------------------------------------------------
Init ==
    /\ pc = "start"
    /\ token = NoneVal
    /\ headers = [h \in {"Content-Type"} |-> "application/json"]
    /\ exitStatus = NoneVal
    /\ postCount = 0
    /\ request = NoneVal
    /\ response = NoneVal
    /\ branch = "none"
    /\ line = NoneVal
    /\ event = "none"
    /\ wire = NoneVal
    /\ out = <<>>

\* client.health_check() and the sys.exit(1) of main()
Startup ==
    \E probe \in OptOf(StatusCodes) :
        /\ pc = "start"
        /\ event' = "health"
        /\ wire' = Some(IF probe.some THEN [kind |-> "reply", status |-> probe.val]
                        ELSE [kind |-> "failure", error |-> "connection refused"])
        /\ IF health_check(probe)
           THEN /\ pc' = "read"
                /\ out' = <<HealthOkLine, CommandsLines>>
                /\ exitStatus' = exitStatus
           ELSE /\ pc' = "done"
                /\ out' = <<IF probe.some THEN HealthStatusLine(probe.val)
                            ELSE HealthFailedLine, ServerHintLine>>
                /\ exitStatus' = Some(1)
        /\ UNCHANGED <<token, headers, postCount, request, response, branch, line>>

\* KeyboardInterrupt before the loop: nothing catches it
InterruptStartup ==
    /\ pc = "start"
    /\ pc' = "done"
    /\ event' = "interrupt"
    /\ exitStatus' = Some(130)
    /\ out' = <<[kind |-> "traceback"]>>
    /\ UNCHANGED <<token, headers, postCount, request, response, branch, line, wire>>

\* input() returned raw
Reads(raw) ==
    /\ pc = "read"
    /\ line' = Some(raw)
    /\ event' = "line"
    /\ wire' = NoneVal

EmptyLine ==
    \E raw \in Lines :
        /\ Reads(raw)
        /\ Parsed[raw].kind = "empty"
        /\ out' = <<>>
        /\ UNCHANGED <<pc, token, headers, exitStatus, postCount, request, response, branch>>

QuitCmd ==
    \E raw \in Lines :
        /\ Reads(raw)
        /\ Parsed[raw].kind = "quit"
        /\ out' = <<GoodbyeLine>>
        /\ pc' = "done"
        /\ exitStatus' = Some(0)
        /\ UNCHANGED <<token, headers, postCount, request, response, branch>>

HelpCmd ==
    \E raw \in Lines :
        /\ Reads(raw)
        /\ Parsed[raw].kind = "help"
        /\ out' = <<HelpLines>>
        /\ UNCHANGED <<pc, token, headers, exitStatus, postCount, request, response, branch>>

\* user_input[6:] without the strip()
token_value_unstripped(user_input) == SubSeq(user_input, 7, Len(user_input))

\* token = user_input[6:].strip()
token_value(user_input) == strip(SubSeq(user_input, 7, Len(user_input)))

TokenCmd ==
    \E raw \in Lines :
        LET user_input == Parsed[raw].user_input
            tok == token_value(user_input)
        IN  /\ Reads(raw)
            /\ Parsed[raw].kind = "token"
            /\ IF tok # <<>>
               THEN /\ token' = Some(tok)
                    /\ headers' = WithAuthorization(headers, tok)
                    /\ out' = <<TokenSetLine>>
               ELSE /\ out' = <<MissingTokenLine>>
                    /\ UNCHANGED <<token, headers>>
            /\ UNCHANGED <<pc, exitStatus, postCount, request, response, branch>>

\* the call of a client method that does not wait for the answer of the POST
CallsWithoutWaiting(br, call, printed) ==
    IF call.post
    THEN /\ postCount < MaxPosts
         /\ postCount' = postCount + 1
         /\ request' = Some([path |-> call.path, headers |-> headers,
                             json |-> call.json, timeout |-> call.timeout])
         /\ branch' = br
         /\ out' = printed
         /\ UNCHANGED <<pc, token, headers, exitStatus, response>>
    ELSE /\ out' = printed \o Rendered(br, call.ret)
         /\ UNCHANGED <<pc, token, headers, exitStatus, postCount, request, response, branch>>

\* the call of a client method from branch br, after main() printed `printed`
Calls(br, call, printed) ==
    IF call.post
    THEN /\ postCount < MaxPosts
         /\ pc' = "post"
         /\ postCount' = postCount + 1
         /\ request' = Some([path |-> call.path, headers |-> headers,
                             json |-> call.json, timeout |-> call.timeout])
         /\ branch' = br
         /\ out' = printed
         /\ UNCHANGED <<token, headers, exitStatus, response>>
    ELSE /\ out' = printed \o Rendered(br, call.ret)
         /\ UNCHANGED <<pc, token, headers, exitStatus, postCount, request, response, branch>>

LeverageCmd ==
    \E raw \in Lines :
        LET user_input == Parsed[raw].user_input
            parts == Parsed[raw].parts
        IN  /\ Reads(raw)
            /\ Parsed[raw].kind = "leverage"
            /\ IF Len(parts) # 3
               THEN /\ out' = <<UsageLine>>
                    /\ UNCHANGED <<pc, token, headers, exitStatus, postCount,
                                   request, response, branch>>
               ELSE IF ~(IsInt(parts[2]) /\ IsInt(parts[3]))
               THEN /\ out' = <<InvalidFormatLine>>
                    /\ UNCHANGED <<pc, token, headers, exitStatus, postCount,
                                   request, response, branch>>
               ELSE Calls("leverage",
                          update_leverage(token, IntVal(parts[2]), IntVal(parts[3])),
                          <<SettingLine(IntVal(parts[2]), IntVal(parts[3]))>>)

PromptCmd ==
    \E raw \in Lines :
        LET user_input == Parsed[raw].user_input
        IN  /\ Reads(raw)
            /\ Parsed[raw].kind = "prompt"
            /\ Calls("prompt", send_prompt(token, user_input),
                     <<ProcessingLine(user_input)>>)

\* input() raised EOFError: caught by `except Exception`
EndOfInput ==
    /\ pc = "read"
    /\ line' = NoneVal
    /\ event' = "eof"
    /\ wire' = NoneVal
    /\ out' = <<UnexpectedErrorLine("EOFError")>>
    /\ UNCHANGED <<pc, token, headers, exitStatus, postCount, request, response, branch>>

\* requests.post returned or raised; the client method returns to main()
PostCompletes ==
    \E w \in { [kind |-> "reply", status |-> s, body |-> b] :
                   s \in StatusCodes, b \in WireBodies }
             \cup { [kind |-> "failure", error |-> e] : e \in TransportErrors } :
        /\ pc = "post"
        /\ event' = w.kind
        /\ wire' = Some(w)
        /\ request' = NoneVal
        /\ IF post_result(w).exc = "none"
           THEN /\ pc' = "render"
                /\ response' = post_result(w).ret
                /\ UNCHANGED <<branch, out>>
           ELSE /\ pc' = "read"
                /\ response' = NoneVal
                /\ branch' = "none"
                /\ out' = out \o Handler(branch, post_result(w).exc)
        /\ UNCHANGED <<token, headers, exitStatus, postCount, line>>

\* print_response logging the session out when the payload carries an error
RenderClearsToken ==
    /\ pc = "render"
    /\ pc' = "read"
    /\ event' = "render"
    /\ out' = out \o Rendered(branch, response.val)
    /\ response' = NoneVal
    /\ branch' = "none"
    /\ IF response.val.kind = "dict" /\ response.val.error.some
       THEN /\ token' = NoneVal
            /\ headers' = [h \in DOMAIN headers \ {"Authorization"} |-> headers[h]]
       ELSE UNCHANGED <<token, headers>>
    /\ UNCHANGED <<exitStatus, postCount, request, line, wire>>

\* client.print_response(response) and the except clauses around it
Render ==
    /\ pc = "render"
    /\ pc' = "read"
    /\ event' = "render"
    /\ out' = out \o Rendered(branch, response.val)
    /\ response' = NoneVal
    /\ branch' = "none"
    /\ UNCHANGED <<token, headers, exitStatus, postCount, request, line, wire>>

\* KeyboardInterrupt handled like any other exception: reported, loop continues
InterruptSwallowed ==
    /\ pc \in {"read", "post", "render"}
    /\ pc' = "read"
    /\ event' = "interrupt"
    /\ out' = (IF pc = "read" THEN <<>> ELSE out)
               \o <<UnexpectedErrorLine("KeyboardInterrupt")>>
    /\ line' = (IF pc = "read" THEN NoneVal ELSE line)
    /\ wire' = (IF pc = "read" THEN NoneVal ELSE wire)
    /\ request' = NoneVal
    /\ response' = NoneVal
    /\ branch' = "none"
    /\ UNCHANGED <<token, headers, postCount, exitStatus>>

\* KeyboardInterrupt inside the try block: while input() waits, while a POST is
\* in flight or before the response is printed
Interrupt ==
    /\ pc \in {"read", "post", "render"}
    /\ pc' = "done"
    /\ event' = "interrupt"
    /\ exitStatus' = Some(0)
    /\ out' = (IF pc = "read" THEN <<>> ELSE out) \o <<GoodbyeLine>>
    /\ line' = (IF pc = "read" THEN NoneVal ELSE line)
    /\ wire' = (IF pc = "read" THEN NoneVal ELSE wire)
    /\ request' = NoneVal
    /\ response' = NoneVal
    /\ branch' = "none"
    /\ UNCHANGED <<token, headers, postCount>>

Next ==
    \/ Startup
    \/ InterruptStartup
    \/ EmptyLine
    \/ QuitCmd
    \/ HelpCmd
    \/ TokenCmd
    \/ LeverageCmd
    \/ PromptCmd
    \/ EndOfInput
    \/ PostCompletes
    \/ Render
    \/ Interrupt

Spec == Init /\ [][Next]_vars

----------------------------------------------------------------------------
(* print_response on every payload of the API's response shape *)

LeverageLine == Leverage \o <<" ","0"," ","2","0">>
PromptLine == <<"B","u","y"," ","E","T","H">>

\* main() holds a decoded payload that print_response has not yet been given
InitRender ==
    /\ pc = "render"
    /\ token = Some(<<"a","b">>)
    /\ headers = WithAuthorization([h \in {"Content-Type"} |-> "application/json"],
                                   <<"a","b">>)
    /\ exitStatus = NoneVal
    /\ postCount = 1
    /\ request = NoneVal
    /\ branch \in {"leverage", "prompt"}
    /\ line = Some(IF branch = "leverage" THEN LeverageLine ELSE PromptLine)
    /\ out = <<IF branch = "leverage" THEN SettingLine(0, 20)
               ELSE ProcessingLine(PromptLine)>>
    /\ event = "reply"
    /\ \E p \in Payloads :
        /\ response = Some(p)
        /\ wire = Some([kind |-> "reply", status |-> 200, body |-> p])

SpecRender == InitRender /\ [][Render]_vars

----------------------------------------------------------------------------
(* Vocabulary of the properties *)

Last(o) == o[Len(o)]

\* the words after "leverage " of a line that starts with it after trimming
LeverageRest(raw) ==
    LET ui == strip(raw) IN split(SubSeq(ui, Len(LeveragePrefix) + 1, Len(ui)))

\* lines that after trimming start with the keyword leverage and a space
LeverageLines == { raw \in Lines : startswith(lower(strip(raw)), LeveragePrefix) }

\* well-formed leverage commands: the rest is two integers
LeverageUpdates ==
    { raw \in LeverageLines :
        /\ Len(LeverageRest(raw)) = 2
        /\ IsInt(LeverageRest(raw)[1])
        /\ IsInt(LeverageRest(raw)[2]) }

\* the asset id and the leverage of a well-formed leverage command
LeverageArgs ==
    [raw \in LeverageUpdates |->
        [assetId |-> IntVal(LeverageRest(raw)[1]), leverage |-> IntVal(LeverageRest(raw)[2])]]

\* lines that after trimming are quit, exit or q in any letter case
QuitLines == { raw \in Lines : lower(strip(raw)) \in QuitWords }

\* natural-language prompts: not empty and none of the keyword forms
PromptLines ==
    { raw \in Lines :
        /\ strip(raw) # <<>>
        /\ lower(strip(raw)) \notin QuitWords
        /\ lower(strip(raw)) # HelpWord
        /\ ~startswith(lower(strip(raw)), TokenPrefix)
        /\ ~startswith(lower(strip(raw)), LeveragePrefix) }

IsLeverageUpdate(raw) == raw \in LeverageUpdates
IsPrompt(raw) == raw \in PromptLines
IsQuit(raw) == raw \in QuitLines

\* kinds of display line that report a failure to the operator
ErrorKinds == {"error", "unexpected_error", "invalid_format", "usage", "missing_token"}
Reported(o) == \E i \in 1..Len(o) : o[i].kind \in ErrorKinds

\* the process has ended: nothing happens afterwards
Terminal == pc = "done" => UNCHANGED vars

HealthAnswered200 == wire.some /\ wire.val.kind = "reply" /\ wire.val.status = 200

----------------------------------------------------------------------------
\* C1: a POST is issued only with a non-empty token set; a leverage update or a
\* prompt entered with no token set prints the token-not-set error and leaves
\* the number of POST calls unchanged.
C1_NoPostWithoutToken ==
    /\ [](request.some => /\ ~Falsy(token)
                          /\ "Authorization" \in DOMAIN request.val.headers)
    /\ [][postCount' # postCount => ~Falsy(token)]_vars
    /\ [][(/\ pc = "read"
           /\ event' = "line"
           /\ Falsy(token)
           /\ (IsLeverageUpdate(line'.val) \/ IsPrompt(line'.val)))
          => /\ postCount' = postCount
             /\ ~request'.some
             /\ pc' = "read"
             /\ Last(out') = ErrorLine(TokenNotSet)]_vars

C1_Witness ==
    /\ pc = "read"
    /\ ~token.some
    /\ line = Some(LeverageLine)
    /\ out = <<SettingLine(0, 20), ErrorLine(TokenNotSet)>>
    /\ postCount = 0

\* C2: the loop ends only on a quit line, an interrupt or a failed health probe;
\* end of input, a transport failure, a body that cannot be rendered, a
\* malformed leverage line or a command without token is reported and the
\* loop is back at input().
C2_LoopEndsOnlyOnQuit ==
    [][/\ (pc # "done" /\ pc' = "done")
          => \/ event' = "interrupt"
             \/ (pc = "start" /\ event' = "health" /\ ~HealthAnswered200')
             \/ (pc = "read" /\ event' = "line" /\ IsQuit(line'.val))
       /\ (\/ event' = "eof"
           \/ /\ pc = "render"
              /\ event' = "render"
              /\ \/ wire.val.kind = "failure"
                 \/ wire.val.body.kind # "dict"
                 \/ wire.val.body.message = Some(Unprintable)
           \/ /\ pc = "read"
              /\ event' = "line"
              /\ \/ Falsy(token) /\ (IsLeverageUpdate(line'.val) \/ IsPrompt(line'.val))
                 \/ line'.val \in LeverageLines \ LeverageUpdates)
          => (pc' = "read" /\ Reported(out'))]_vars

C2_Witness ==
    /\ pc = "read"
    /\ event = "render"
    /\ wire.val.kind = "reply"
    /\ wire.val.body.kind = "null"
    /\ Last(out) = UnexpectedErrorLine("TypeError")

\* C3: a connection-level failure of a POST is returned by the client method as
\* {"error": "Request failed: <message>"}, printed as an error line, and the loop
\* is back at input().
C3_TransportFailureBecomesResponse ==
    (wire.some /\ wire.val.kind = "failure" /\ event \in {"failure", "render"})
    => /\ pc \in {"render", "read"}
       /\ pc = "render" =>
            /\ event = "failure"
            /\ response = Some(ErrorDict("Request failed: " \o wire.val.error))
       /\ pc = "read" =>
            /\ event = "render"
            /\ Last(out) = ErrorLine("Request failed: " \o wire.val.error)
            /\ ~request.some

C3_Witness ==
    /\ pc = "read"
    /\ event = "render"
    /\ wire = Some([kind |-> "failure", error |-> "connection refused"])
    /\ line = Some(PromptLine)
    /\ out = <<ProcessingLine(PromptLine), ErrorLine("Request failed: connection refused")>>

\* C4: a health probe that fails or answers another status than 200 ends the
\* process with a non-zero status before any line is read, any token is set or
\* any POST is issued; a probe answering 200 enters the read loop.
C4_HealthProbeGatesLoop ==
    /\ [](event = "health" =>
            IF HealthAnswered200
            THEN pc = "read" /\ ~exitStatus.some
            ELSE /\ pc = "done"
                 /\ exitStatus.some /\ exitStatus.val # 0
                 /\ ~line.some /\ ~token.some /\ postCount = 0 /\ ~request.some)
    /\ [][Terminal]_vars

C4_Witness ==
    /\ pc = "done"
    /\ event = "health"
    /\ wire = Some([kind |-> "reply", status |-> 500])
    /\ exitStatus = Some(1)

\* the raw line is the keyword token, in any letter case, followed by whitespace
\* and nothing else
BareTokenLines ==
    { raw \in Lines :
        LET t == lstrip(raw)
        IN  /\ Len(t) > 5
            /\ lower(SubSeq(t, 1, 5)) = <<"t","o","k","e","n">>
            /\ \A i \in 6..Len(t) : t[i] \in Whitespace }

\* C5: a raw line that is the keyword token followed only by whitespace gets
\* the missing-token-value error: the token is unchanged, the line is not sent
\* as a prompt and no network call is made.
C5_BareTokenIsMissingValue ==
    (event = "line" /\ line.some /\ line.val \in BareTokenLines)
    => /\ pc = "read"
       /\ out = <<MissingTokenLine>>
       /\ ~request.some

\* C6: a line that after trimming starts with "leverage ": when the rest is two
\* integers a and b the command is the leverage update of (a, b) and, with a
\* token set, the POST goes to /api/update_leverage with {assetId: a,
\* leverage: b}; otherwise a syntax error is printed, nothing is posted and the
\* session is unchanged.
C6_LeverageSyntax ==
    [][(pc = "read" /\ event' = "line" /\ line'.val \in LeverageLines)
       => IF line'.val \in LeverageUpdates
          THEN /\ out'[1] = SettingLine(LeverageArgs[line'.val].assetId,
                                        LeverageArgs[line'.val].leverage)
               /\ IF Falsy(token)
                  THEN postCount' = postCount /\ ~request'.some
                  ELSE /\ postCount' = postCount + 1
                       /\ request'.some
                       /\ request'.val.path = "/api/update_leverage"
                       /\ request'.val.json = LeverageArgs[line'.val]
          ELSE /\ out' \in {<<UsageLine>>, <<InvalidFormatLine>>}
               /\ postCount' = postCount
               /\ ~request'.some
               /\ pc' = "read"
               /\ token' = token
               /\ headers' = headers]_vars

C6_Witness ==
    /\ pc = "post"
    /\ line = Some(<<"L","E","V","E","R","A","G","E"," ","1"," ","-","5">>)
    /\ request.some
    /\ request.val.path = "/api/update_leverage"
    /\ request.val.json = [assetId |-> 1, leverage |-> 0 - 5]

\* C7: a line that after trimming is quit, exit or q in any letter case ends
\* the loop whatever the session state: exit status 0, no POST for the line,
\* nothing read or sent afterwards.  An interrupt while input() waits does the
\* same.
C7_QuitEndsSession ==
    /\ [][(pc = "read"
           /\ \/ event' = "line" /\ IsQuit(line'.val)
              \/ event' = "interrupt")
          => /\ pc' = "done"
             /\ exitStatus' = Some(0)
             /\ Last(out') = GoodbyeLine
             /\ postCount' = postCount
             /\ ~request'.some
             /\ token' = token]_vars
    /\ [][Terminal]_vars

C7_Witness ==
    /\ pc = "done"
    /\ exitStatus = Some(0)
    /\ line = Some(<<"Q","u","I","t"," ">>)
    /\ token.some
    /\ postCount > 0
    /\ out = <<GoodbyeLine>>

----------------------------------------------------------------------------
(* print_response: the payload is wire.val.body, the lines it printed follow *)
(* the line main() printed before the call                                   *)

AfterRender == pc = "read" /\ event = "render" /\ wire.some /\ wire.val.kind = "reply"
Payload == wire.val.body
Shown == SubSeq(out, 2, Len(out))
SubActions == IF Payload.actions.some THEN Payload.actions.val ELSE <<>>
KindCount(o, k) == Cardinality({ i \in 1..Len(o) : o[i].kind = k })

\* index in o of the k-th line of kind "action"
ActionLineAt(o, k) ==
    CHOOSE i \in 1..Len(o) :
        /\ o[i].kind = "action"
        /\ Cardinality({ j \in 1..i : o[j].kind = "action" }) = k

\* C8 as stated: sub-actions are always listed under a status line and a header,
\* also next to a top-level error; the single error line needs an error and no
\* sub-actions.
C8_ActionsAlwaysListed ==
    AfterRender
    => /\ SubActions # <<>> =>
            /\ KindCount(Shown, "status") = 1
            /\ KindCount(Shown, "actions_header") = 1
            /\ KindCount(Shown, "action") = Len(SubActions)
       /\ Shown[1].kind = "error" => (Payload.error.some /\ SubActions = <<>>)

\* C8 amended: without a top-level error, non-empty sub-actions are listed under
\* one status line and one header line, one line per sub-action; with a
\* top-level error only the error form is printed, whatever the sub-actions;
\* the error form is printed only for a payload with a top-level error.
C8_ActionsListedUnlessError ==
    AfterRender
    => /\ (~Payload.error.some /\ SubActions # <<>>) =>
            /\ Shown[1].kind = "status"
            /\ Shown[2] = ActionsHeader
            /\ KindCount(Shown, "status") = 1
            /\ KindCount(Shown, "actions_header") = 1
            /\ KindCount(Shown, "action") = Len(SubActions)
       /\ Payload.error.some =>
            /\ Shown[1].kind = "error"
            /\ \A i \in 1..Len(Shown) : Shown[i].kind \in {"error", "details"}
       /\ Shown[1].kind = "error" => Payload.error.some

C8_Witness ==
    /\ AfterRender
    /\ Payload.error.some
    /\ Len(SubActions) = 2
    /\ Payload.success = Some(FALSE)
    /\ Shown = <<ErrorLine("bad token")>>

\* C9: without a top-level error the k-th sub-action line is for the k-th
\* action of the payload: ordinal k, the action's own ok/fail mark, its label;
\* the line after it is the action's error detail exactly when the action
\* failed and carries an error.
C9_ActionLinesInOrder ==
    (AfterRender /\ ~Payload.error.some)
    => /\ KindCount(Shown, "action") = Len(SubActions)
       /\ KindCount(Shown, "action_error")
            = Cardinality({ k \in 1..Len(SubActions) :
                              /\ SubActions[k].success # Some(TRUE)
                              /\ SubActions[k].error.some })
       /\ \A k \in 1..Len(SubActions) :
            LET a == SubActions[k]
                i == ActionLineAt(Shown, k)
                detail == i < Len(Shown) /\ Shown[i + 1].kind = "action_error"
            IN  /\ Shown[i].n = k
                /\ Shown[i].ok = (a.success = Some(TRUE))
                /\ Shown[i].text = (IF a.tool.some THEN a.tool.val ELSE "unknown")
                /\ detail <=> (a.success # Some(TRUE) /\ a.error.some)
                /\ detail => Shown[i + 1].text = a.error.val

C9_Witness ==
    /\ AfterRender
    /\ ~Payload.error.some
    /\ SubActions = <<OkAction, FailedAction>>
    /\ SubSeq(Shown, 2, Len(Shown))
         = <<ActionsHeader, ActionLine(1, TRUE, "setLeverage"),
             ActionLine(2, FALSE, "unknown"), ActionErrorLine("rejected")>>

\* C10: a payload with a top-level error is shown as that error, followed by
\* the details when present, whatever success says: never as a success line.
C10_ErrorFieldWins ==
    (AfterRender /\ Payload.error.some)
    => /\ Shown = <<ErrorLine(Payload.error.val)>>
                  \o (IF Payload.details.some
                      THEN <<DetailsLine(Payload.details.val)>> ELSE <<>>)
       /\ KindCount(Shown, "status") = 0

C10_Witness ==
    /\ AfterRender
    /\ Payload.success = Some(TRUE)
    /\ Payload.error.some
    /\ Payload.details.some
    /\ Shown = <<ErrorLine("bad token"), DetailsLine("expired")>>

----------------------------------------------------------------------------
\* lines that after trimming start with the keyword token and a space
TokenLines == { raw \in Lines : startswith(lower(strip(raw)), TokenPrefix) }

\* the value such a line gives: the text after the keyword, trimmed
TokenValue ==
    [raw \in TokenLines |->
        strip(SubSeq(strip(raw), Len(TokenPrefix) + 1, Len(strip(raw))))]

\* C11: after `token v` the session is authenticated with Authorization
\* "Bearer v"; `token v` again changes nothing; the last token set is the one
\* every POST carries; setting a token issues no network call.
C11_SetTokenLastWriterWins ==
    /\ [][(pc = "read" /\ event' = "line" /\ line'.val \in TokenLines)
          => LET v == TokenValue[line'.val]
             IN  /\ token' = Some(v)
                 /\ ~Falsy(token')
                 /\ headers'["Authorization"] = Bearer(v)
                 /\ token = Some(v) => (token' = token /\ headers' = headers)
                 /\ postCount' = postCount
                 /\ ~request'.some
                 /\ pc' = "read"]_vars
    /\ [](request.some =>
            request.val.headers["Authorization"] = Bearer(token.val))

C11_Witness ==
    /\ pc = "post"
    /\ postCount = 2
    /\ token = Some(<<"x"," ","y">>)
    /\ request.val.headers["Authorization"] = <<"B","e","a","r","e","r"," ","x"," ","y">>

\* C12: one command at a time: a request is in flight only while main() waits
\* in the POST, a response is held only until it is printed, never both, and
\* input() is called only when neither is pending.
C12_OneCommandAtATime ==
    /\ [](/\ request.some <=> pc = "post"
          /\ response.some <=> pc = "render"
          /\ ~(request.some /\ response.some))
    /\ [][event' \in {"line", "eof"}
          => (pc = "read" /\ ~request.some /\ ~response.some)]_vars
    /\ [][request'.some /\ request' # request => ~request.some]_vars

C12_Witness ==
    /\ pc = "read"
    /\ event = "line"
    /\ postCount = 1
    /\ ~request.some
    /\ ~response.some
    /\ out = <<HelpLines>>

\* C13 as stated: the wait for a POST ends only with the call returning or
\* failing (refused, timed out); an interrupt during the request neither
\* cancels it nor ends the session.
C13_OnlyCallOutcomeEndsWait ==
    [][(pc = "post" /\ pc' # "post")
       => (event' \in {"reply", "failure"} /\ pc' # "done")]_vars

\* C13 amended: the wait for a POST ends with the call returning or failing,
\* or with an interrupt; the interrupt abandons the request and ends the
\* session like quit: farewell, exit status 0.
C13_InterruptAlsoEndsWait ==
    [][(pc = "post" /\ pc' # "post")
       => \/ /\ event' \in {"reply", "failure"}
             /\ pc' = "render"
             /\ exitStatus' = exitStatus
          \/ /\ event' = "interrupt"
             /\ pc' = "done"
             /\ exitStatus' = Some(0)
             /\ ~request'.some
             /\ ~response'.some
             /\ out' = Append(out, GoodbyeLine)]_vars

C13_Witness ==
    /\ pc = "done"
    /\ event = "interrupt"
    /\ line = Some(PromptLine)
    /\ ~wire.some
    /\ postCount = 1
    /\ exitStatus = Some(0)
    /\ out = <<ProcessingLine(PromptLine), GoodbyeLine>>

\* lines that are empty after trimming, and help lines
BlankLines == { raw \in Lines : strip(raw) = <<>> }
HelpRequests == { raw \in Lines : lower(strip(raw)) = HelpWord }

\* C14: a help line, an empty line and a malformed command leave token and
\* headers unchanged and issue no POST; an empty line prints nothing.
C14_NoEffectCommands ==
    [][(pc = "read" /\ event' = "line"
        /\ line'.val \in BlankLines \cup HelpRequests \cup (LeverageLines \ LeverageUpdates))
       => /\ token' = token
          /\ headers' = headers
          /\ postCount' = postCount
          /\ ~request'.some
          /\ ~response'.some
          /\ pc' = "read"
          /\ line'.val \in BlankLines => out' = <<>>
          /\ line'.val \in HelpRequests => out' = <<HelpLines>>]_vars

C14_Witness ==
    /\ pc = "read"
    /\ event = "line"
    /\ line = Some(<<" ">>)
    /\ token.some
    /\ postCount = 1
    /\ out = <<>>

\* the prompt text of a natural-language line
PromptText == [raw \in PromptLines |-> strip(raw)]

\* C15: with a token set, a leverage update or a prompt issues exactly one POST,
\* to /api/update_leverage or /api/prompt; nothing is posted again while
\* waiting or after a failure; the one response is printed once and the loop
\* is back at input(), unless an interrupt ends the session first.
C15_OnePostOneResponse ==
    /\ [][(pc = "read" /\ event' = "line" /\ ~Falsy(token)
           /\ line'.val \in LeverageUpdates \cup PromptLines)
          => /\ postCount' = postCount + 1
             /\ pc' = "post"
             /\ ~response'.some
             /\ request'.some
             /\ IF line'.val \in LeverageUpdates
                THEN /\ request'.val.path = "/api/update_leverage"
                     /\ request'.val.json = LeverageArgs[line'.val]
                ELSE /\ request'.val.path = "/api/prompt"
                     /\ request'.val.json = [prompt |-> PromptText[line'.val]]]_vars
    /\ [][postCount' # postCount => (event' = "line" /\ postCount' = postCount + 1)]_vars
    /\ [][(pc = "post" /\ event' \in {"reply", "failure"})
          => (pc' = "render" /\ response'.some /\ ~request'.some)]_vars
    /\ [][(pc = "render" /\ event' = "render")
          => /\ pc' = "read"
             /\ ~response'.some
             /\ ~request'.some
             /\ Len(out') > Len(out)
             /\ SubSeq(out', 1, Len(out)) = out]_vars
    /\ [][(pc \in {"post", "render"}) => event' \in {"reply", "failure", "render", "interrupt"}]_vars

C15_Witness ==
    /\ pc = "read"
    /\ event = "render"
    /\ postCount = 1
    /\ line = Some(PromptLine)
    /\ wire = Some([kind |-> "failure", error |-> "read timed out"])
    /\ out = <<ProcessingLine(PromptLine), ErrorLine("Request failed: read timed out")>>

\* C16: the invalid-format report appears only for a leverage line whose
\* numbers did not parse, as the only output of that line and with no POST
\* made for it; nothing that fails after the POST is reported that way.
C16_InvalidFormatOnlyForBadNumbers ==
    (\E i \in 1..Len(out) : out[i] = InvalidFormatLine)
    => /\ line.some
       /\ line.val \in LeverageLines \ LeverageUpdates
       /\ ~wire.some
       /\ out = <<InvalidFormatLine>>

\* the branch of main() a line that posted was handled by
BranchOf(raw) == IF raw \in LeverageLines THEN "leverage" ELSE "prompt"

\* C17: the decoded body of a reply is handed to main() whatever the status
\* code, and what is printed after the line's own first output is a function
\* of the body and the command alone; only a connection-level failure gives
\* the transport error.
C17_StatusCodeIgnored ==
    /\ (pc = "render" /\ wire.val.kind = "reply") => response = Some(wire.val.body)
    /\ (pc = "render" /\ wire.val.kind = "failure")
       => response = Some(ErrorDict("Request failed: " \o wire.val.error))
    /\ AfterRender => Shown = Rendered(BranchOf(line.val), Payload)
    /\ (pc = "read" /\ event = "render" /\ wire.val.kind = "failure")
       => Shown = <<ErrorLine("Request failed: " \o wire.val.error)>>
    /\ (pc = "read" /\ event = "render" /\ Shown[1].kind = "error"
        /\ Shown[1].text \notin {"bad token"})
       => wire.val.kind = "failure"

C17_Witness ==
    /\ AfterRender
    /\ wire.val.status = 500
    /\ Payload = Dict(Some(TRUE), Some("done"), NoneVal, NoneVal, Some(<<OkAction>>))
    /\ line = Some(PromptLine)
    /\ out = <<ProcessingLine(PromptLine), StatusLine(TRUE, "done"), ActionsHeader,
               ActionLine(1, TRUE, "setLeverage")>>

\* C18: for an object payload with any of success, message, actions, error
\* missing, print_response returns normally; without error and success the
\* status line is the failed one; a missing message prints "No message"; missing
\* or empty actions print no header, sub-action or detail line.
C18_MissingFieldsDefault ==
    AfterRender
    => /\ Shown # <<>>
       /\ \A i \in 1..Len(Shown) :
            Shown[i].kind \notin {"unexpected_error", "invalid_format"}
       /\ (~Payload.error.some /\ ~Payload.success.some)
          => (Shown[1].kind = "status" /\ Shown[1].ok = FALSE)
       /\ ~Payload.error.some
          => Shown[1].text = (IF Payload.message.some THEN Payload.message.val
                              ELSE "No message")
       /\ SubActions = <<>>
          => /\ KindCount(Shown, "actions_header") = 0
             /\ KindCount(Shown, "action") = 0
             /\ KindCount(Shown, "action_error") = 0

C18_Witness ==
    /\ AfterRender
    /\ Payload = Dict(NoneVal, NoneVal, NoneVal, NoneVal, NoneVal)
    /\ Shown = <<StatusLine(FALSE, "No message")>>

\* C19: the Authorization header exists exactly when a token is set and is
\* then "Bearer " followed by the token; the token is never empty and never
\* starts or ends with whitespace.
C19_HeaderFollowsToken ==
    /\ "Authorization" \in DOMAIN headers <=> token.some
    /\ token.some
       => /\ headers["Authorization"] = Bearer(token.val)
          /\ token.val # <<>>
          /\ token.val[1] \notin Whitespace
          /\ token.val[Len(token.val)] \notin Whitespace

C19_Witness ==
    /\ pc = "read"
    /\ event = "line"
    /\ line = Some(<<"T","O","K","E","N"," "," ","a","b">>)
    /\ token = Some(<<"a","b">>)
    /\ headers["Authorization"] = <<"B","e","a","r","e","r"," ","a","b">>
    /\ out = <<TokenSetLine>>

\* C20: once set, the token and its header are never cleared, and they change
\* only in the step that handles a token line, to that line's value; failed
\* requests, error payloads and caught exceptions leave them as they are.
C20_AuthenticationMonotonic ==
    [][token.some
       => /\ token'.some
          /\ "Authorization" \in DOMAIN headers'
          /\ (token' # token \/ headers' # headers)
             => /\ pc = "read"
                /\ event' = "line"
                /\ line'.val \in TokenLines
                /\ token' = Some(TokenValue[line'.val])]_vars

C20_Witness ==
    /\ AfterRender
    /\ wire.val.status = 401
    /\ Payload = Dict(NoneVal, NoneVal, Some("bad token"), Some("expired"), NoneVal)
    /\ Shown = <<ErrorLine("bad token"), DetailsLine("expired")>>
    /\ token.some
    /\ headers["Authorization"] = Bearer(token.val)
    /\ postCount = 2
====
